---- MODULE Spec2Model ----
(***************************************************************************)
(* Hybrid recommendation engine of customer-data-analytics:                *)
(*   api/services/hybrid_recommendation_service.py  (Recommend)            *)
(*   api/services/recommendation_service.py         (SimilarItems)         *)
(*   api/routes/recommendations.py                  (HTTP routes)          *)
(*   ml-engine/scripts/compute_item_knn_cf.py       (CF index rebuild)     *)
(*   ml-engine/scripts/compute_content_similarity.py (content rebuild)     *)
(*                                                                         *)
(* One user is modelled.  Every database call of a request is one step, so *)
(* the interaction log can grow and days can pass between the four history *)
(* reads a request makes.                                                  *)
(*                                                                         *)
(* Numbers.  Floats are kept as scaled integers:                           *)
(*   sim_score          in tenths            (9 is 0.9)                    *)
(*   recency weight     in thousandths       (900 is 0.9)                  *)
(*   popularity score   in halves            (so that *1.5 is integral)    *)
(*   normalized scores, penalties, bonuses in thousandths (Unit is 1.0)    *)
(*   weights            in hundredths        (15 is 0.15)                  *)
(*   hybrid_score       in 1/100000                                        *)
(* A division rounds down to the next thousandth.                          *)
(***************************************************************************)
EXTENDS Integers, Sequences, FiniteSets, TLC

(***************************************************************************)
(* Bounds of the model                                                     *)
(***************************************************************************)
MaxLog == 2
MaxDay == 1
MaxK == 2

(***************************************************************************)
(* Program constants                                                       *)
(***************************************************************************)
w_cf == 15
w_cb == 15
w_pop == 70
lambda_div == 1
beta_nov == 1
gamma_price == 1
cf_limit == 100
cb_limit == 100
pop_limit == 100
max_user_history == 5
cf_min_history == 2
cf_query_limit == 50
content_query_limit == 40
content_history_items == 3
Unit == 1000

NULL == "NULL"
Min(a, b) == IF a < b THEN a ELSE b
Abs(a) == IF a < 0 THEN 0 - a ELSE a
Limit(seq, n) == SubSeq(seq, 1, Min(n, Len(seq)))
Ids(seq) == {seq[i].product_id : i \in DOMAIN seq}

(***************************************************************************)
(* The data the engine reads.  ml_item_content_features is a function from *)
(* the product ids that have a row; item 6 has no row.                     *)
(***************************************************************************)
Items == 1..6
PurchasedItems == {1, 4}
Amounts == {10}

Features ==
  [p \in 1..5 |->
     CASE p = 1 -> [is_active |-> TRUE,  category |-> "a",  price_current |-> 10, popularity_30d |-> 3]
       [] p = 2 -> [is_active |-> TRUE,  category |-> "b",  price_current |-> 10, popularity_30d |-> 3]
       [] p = 3 -> [is_active |-> TRUE,  category |-> "a",  price_current |-> 20, popularity_30d |-> 0]
       [] p = 4 -> [is_active |-> TRUE,  category |-> NULL, price_current |-> 10, popularity_30d |-> 2]
       [] p = 5 -> [is_active |-> FALSE, category |-> "b",  price_current |-> 10, popularity_30d |-> 5]]

\* The same catalog before any sale was counted.
NoSales == [p \in DOMAIN Features |-> [Features[p] EXCEPT !.popularity_30d = 0]]
Catalogs == {Features, NoSales}

Edge(p, q, s, c) == [product_id |-> p, similar_product_id |-> q, sim_score |-> s, co_users |-> c]
CfEdgePool == {Edge(1, 3, 9, 5), Edge(4, 3, 5, 5), Edge(1, 5, 9, 6)}
ContentEdgePool == {Edge(1, 3, 8, 0), Edge(1, 4, 8, 0), Edge(4, 6, 9, 0)}
MaxEdges == 2
EdgeSets(pool) == {t \in SUBSET pool : Cardinality(t) <= MaxEdges}

VARIABLES
  catalog,          \* ml_item_content_features
  sim_cf,           \* ml_item_sim_cf
  sim_content,      \* ml_item_sim_content
  interactions,     \* ml_interactions_implicit of the user, most recent first
  pc,               \* position of the request
  k,                \* requested result size
  user_history,     \* history read by get_hybrid_recommendations
  hist_cf,          \* history read by get_cf_candidates
  hist_cb,          \* history read by get_content_candidates
  hist_pop,         \* history read by get_popularity_candidates
  cf_candidates,
  cb_candidates,
  pop_candidates,
  failed,           \* sources whose lookup raised
  pool,             \* candidates_list of merge_and_rerank_candidates, scored
  recommendations,  \* list returned by the service
  item_similar,     \* list returned by get_item_similar
  status,           \* outcome of the route
  indexer,          \* the run of an offline indexer script
  snapshots,        \* per algorithm: commits so far, input of the last one
  unique_pairs,     \* whether ml_item_sim_cf refuses a second row for a pair
  reader            \* a source scan of the engine, one step per SELECT

vars == <<catalog, sim_cf, sim_content, interactions, pc, k, user_history,
          hist_cf, hist_cb, hist_pop, cf_candidates, cb_candidates,
          pop_candidates, failed, pool, recommendations, item_similar,
          status, indexer, snapshots, unique_pairs, reader>>

request == <<pc, k, user_history, hist_cf, hist_cb, hist_pop, cf_candidates,
             cb_candidates, pop_candidates, failed, pool, recommendations,
             item_similar, status>>
tables == <<catalog, sim_cf, sim_content>>
indexing == <<indexer, snapshots, unique_pairs, reader>>


(***************************************************************************)
(* Ordering helpers                                                        *)
(***************************************************************************)

\* The row orders an SQL "ORDER BY key DESC" may deliver: rows with equal
\* keys come in any order.  key is a function on S.
RECURSIVE OrderDesc(_, _)
OrderDesc(S, key) ==
  IF S = {} THEN {<<>>}
  ELSE LET top == {x \in S : \A y \in S : key[x] >= key[y]}
       IN UNION {{<<x>> \o t : t \in OrderDesc(S \ {x}, key)} : x \in top}

\* Python's sorted(seq, key=..., reverse=True): descending and stable, so
\* entries with equal keys keep the order they had in seq.  key[i] is the
\* key of seq[i].
StableSortDesc(seq, key) ==
  LET n == Len(seq)
      rank(j) == 1 + Cardinality({m \in 1..n : \/ key[m] > key[j]
                                               \/ key[m] = key[j] /\ m < j})
  IN [i \in 1..n |-> seq[CHOOSE j \in 1..n : rank(j) = i]]

SortedByScore(candidates) ==
  StableSortDesc(candidates, [i \in DOMAIN candidates |-> candidates[i].score])

(***************************************************************************)
(* get_user_purchase_history                                               *)
(***************************************************************************)
get_user_purchase_history == Limit(interactions, max_user_history)

RECURSIVE Power9(_)
Power9(d) == IF d = 0 THEN Unit ELSE (Power9(d - 1) * 9) \div 10

\* recency_decay_factor ** days_ago, in thousandths
recency_weight(hist_item) == Power9(hist_item.days_ago)

(***************************************************************************)
(* Candidate rows                                                          *)
(***************************************************************************)
Candidate(pid, score, source) ==
  [product_id |-> pid,
   category |-> catalog[pid].category,
   price |-> catalog[pid].price_current,
   popularity_score |-> catalog[pid].popularity_30d,
   score |-> score,
   source |-> source]

\* Mutant: the first score an item got is kept.
Upsert_KeepsFirst(candidates, c) ==
  IF \E i \in DOMAIN candidates : candidates[i].product_id = c.product_id
  THEN candidates
  ELSE Append(candidates, c)

\* candidates[product_id] = {...} when the id is new or the score is higher;
\* a replaced entry keeps its place in the dict.
Upsert(candidates, c) ==
  IF \E i \in DOMAIN candidates : candidates[i].product_id = c.product_id
  THEN LET i == CHOOSE j \in DOMAIN candidates : candidates[j].product_id = c.product_id
       IN IF candidates[i].score < c.score
          THEN [candidates EXCEPT ![i] = c]
          ELSE candidates
  ELSE Append(candidates, c)

RECURSIVE AddRows(_, _, _, _)
AddRows(candidates, similar_items, weight, source) ==
  IF similar_items = <<>> THEN candidates
  ELSE LET item == Head(similar_items)
           c == Candidate(item.similar_product_id, item.sim_score * weight, source)
       IN AddRows(Upsert(candidates, c), Tail(similar_items), weight, source)

\* Mutant: the query does not ask for is_active = true.
SimilarRows_Inactive(table, product_id, purchased_product_ids) ==
  {s \in table : /\ s.product_id = product_id
                 /\ s.similar_product_id \in DOMAIN catalog
                 /\ s.similar_product_id \notin purchased_product_ids}

\* The join with ml_item_content_features drops an edge whose target has no
\* row there; is_active = true drops inactive targets; != ALL(purchased)
\* drops targets of the history that was read.
SimilarRows(table, product_id, purchased_product_ids) ==
  {s \in table : /\ s.product_id = product_id
                 /\ s.similar_product_id \in DOMAIN catalog
                 /\ catalog[s.similar_product_id].is_active
                 /\ s.similar_product_id \notin purchased_product_ids}

\* cf_query / content_query / similar_query: ORDER BY sim_score DESC LIMIT n
SimilarQuery(table, product_id, purchased_product_ids, n) ==
  LET rows == SimilarRows(table, product_id, purchased_product_ids)
  IN {Limit(r, n) : r \in OrderDesc(rows, [s \in rows |-> s.sim_score])}

(***************************************************************************)
(* get_cf_candidates: the lists it can return for the history it read      *)
(***************************************************************************)
RECURSIVE CfScan(_, _, _)
CfScan(history, i, candidates) ==
  IF i > Len(history) THEN {candidates}
  ELSE UNION {CfScan(history, i + 1,
                     AddRows(candidates, similar_items,
                             recency_weight(history[i]), "cf")) :
              similar_items \in SimilarQuery(sim_cf, history[i].product_id,
                                             Ids(history), cf_query_limit)}

\* Mutant: no minimum history length.
get_cf_candidates_NoMinHistory(history, limit) ==
  {Limit(SortedByScore(c), limit) : c \in CfScan(history, 1, <<>>)}

get_cf_candidates(history, limit) ==
  IF Len(history) < cf_min_history THEN {<<>>}
  ELSE {Limit(SortedByScore(c), limit) : c \in CfScan(history, 1, <<>>)}

(***************************************************************************)
(* get_content_candidates                                                  *)
(***************************************************************************)
RECURSIVE ContentScan(_, _, _)
ContentScan(history, i, candidates) ==
  IF i > Min(Len(history), content_history_items) THEN {candidates}
  ELSE UNION {ContentScan(history, i + 1,
                          AddRows(candidates, similar_items, 1, "content")) :
              similar_items \in SimilarQuery(sim_content, history[i].product_id,
                                             Ids(history), content_query_limit)}

\* Mutant: the content source asks for the minimum history of CF.
get_content_candidates_MinHistory(history, limit) ==
  IF Len(history) < cf_min_history THEN {<<>>}
  ELSE {Limit(SortedByScore(c), limit) : c \in ContentScan(history, 1, <<>>)}

get_content_candidates(history, limit) ==
  IF history = <<>> THEN {<<>>}
  ELSE {Limit(SortedByScore(c), limit) : c \in ContentScan(history, 1, <<>>)}

(***************************************************************************)
(* get_popularity_candidates                                               *)
(***************************************************************************)
\* categories_query: categories of the purchased items that have one
user_categories(history) ==
  {catalog[p].category : p \in {q \in Ids(history) \cap DOMAIN catalog :
                                  catalog[q].category # NULL}}

\* Rows of pop_query.  With user categories the purchased items are left
\* out and the user's categories count 1.5 times; without, the plain query
\* runs.  Scores are in halves.
PopularityRows(history) ==
  LET cats == user_categories(history)
      popular == {p \in DOMAIN catalog : catalog[p].is_active
                                          /\ catalog[p].popularity_30d > 0}
  IN IF cats # {}
     THEN {Candidate(p, IF catalog[p].category \in cats
                        THEN catalog[p].popularity_30d * 3
                        ELSE catalog[p].popularity_30d * 2, "popularity") :
           p \in popular \ Ids(history)}
     ELSE {Candidate(p, catalog[p].popularity_30d * 2, "popularity") : p \in popular}

get_popularity_candidates(history, limit) ==
  LET rows == PopularityRows(history)
  IN {Limit(r, limit) : r \in OrderDesc(rows, [c \in rows |-> c.score])}

(***************************************************************************)
(* normalize_scores: min-max to [0, Unit]; all equal gives Unit            *)
(***************************************************************************)
MinScore(candidates) ==
  CHOOSE m \in {candidates[i].score : i \in DOMAIN candidates} :
    \A i \in DOMAIN candidates : m <= candidates[i].score
MaxScore(candidates) ==
  CHOOSE m \in {candidates[i].score : i \in DOMAIN candidates} :
    \A i \in DOMAIN candidates : m >= candidates[i].score

\* Mutant: equal scores are normalized to 0.
normalize_scores_EqualGivesZero(candidates) ==
  IF candidates = <<>> THEN candidates
  ELSE LET min_score == MinScore(candidates)
           max_score == MaxScore(candidates)
       IN [i \in DOMAIN candidates |->
             [product_id |-> candidates[i].product_id,
              category |-> candidates[i].category,
              price |-> candidates[i].price,
              popularity_score |-> candidates[i].popularity_score,
              source |-> candidates[i].source,
              score_normalized |->
                IF max_score = min_score THEN 0
                ELSE ((candidates[i].score - min_score) * Unit)
                       \div (max_score - min_score)]]

normalize_scores(candidates) ==
  IF candidates = <<>> THEN candidates
  ELSE LET min_score == MinScore(candidates)
           max_score == MaxScore(candidates)
       IN [i \in DOMAIN candidates |->
             [product_id |-> candidates[i].product_id,
              category |-> candidates[i].category,
              price |-> candidates[i].price,
              popularity_score |-> candidates[i].popularity_score,
              source |-> candidates[i].source,
              score_normalized |->
                IF max_score = min_score THEN Unit
                ELSE ((candidates[i].score - min_score) * Unit)
                       \div (max_score - min_score)]]

(***************************************************************************)
(* merge_and_rerank_candidates, step 2: all_candidates in insertion order  *)
(***************************************************************************)
PoolEntry(c, source, cf, cb, pop) ==
  [product_id |-> c.product_id, category |-> c.category, price |-> c.price,
   popularity_score |-> c.popularity_score, source |-> source,
   cf_score |-> cf, cb_score |-> cb, pop_score |-> pop]

IndexOf(all_candidates, pid) ==
  CHOOSE i \in DOMAIN all_candidates : all_candidates[i].product_id = pid

AddCf(all_candidates, c) ==
  LET e == PoolEntry(c, c.source, c.score_normalized, 0, 0)
  IN IF c.product_id \in Ids(all_candidates)
     THEN [all_candidates EXCEPT ![IndexOf(all_candidates, c.product_id)] = e]
     ELSE Append(all_candidates, e)

\* Mutant: a content candidate replaces the entry of its item.
AddContent_Overwrites(all_candidates, c) ==
  IF c.product_id \in Ids(all_candidates)
  THEN [all_candidates EXCEPT ![IndexOf(all_candidates, c.product_id)] =
          PoolEntry(c, c.source, 0, c.score_normalized, 0)]
  ELSE Append(all_candidates, PoolEntry(c, c.source, 0, c.score_normalized, 0))

AddContent(all_candidates, c) ==
  IF c.product_id \in Ids(all_candidates)
  THEN [all_candidates EXCEPT ![IndexOf(all_candidates, c.product_id)] =
          [@ EXCEPT !.cb_score = c.score_normalized, !.source = "cf+content"]]
  ELSE Append(all_candidates, PoolEntry(c, c.source, 0, c.score_normalized, 0))

AddPopularity(all_candidates, c) ==
  IF c.product_id \in Ids(all_candidates)
  THEN [all_candidates EXCEPT ![IndexOf(all_candidates, c.product_id)] =
          [@ EXCEPT !.pop_score = c.score_normalized,
                    !.source = CASE @ = "cf+content" -> "cf+content+pop"
                                 [] @ = "cf" -> "cf+pop"
                                 [] @ = "content" -> "content+pop"
                                 [] OTHER -> @]]
  ELSE Append(all_candidates, PoolEntry(c, c.source, 0, 0, c.score_normalized))

RECURSIVE MergeCf(_, _)
MergeCf(all_candidates, cf_normalized) ==
  IF cf_normalized = <<>> THEN all_candidates
  ELSE MergeCf(AddCf(all_candidates, Head(cf_normalized)), Tail(cf_normalized))

RECURSIVE MergeContent(_, _)
MergeContent(all_candidates, cb_normalized) ==
  IF cb_normalized = <<>> THEN all_candidates
  ELSE MergeContent(AddContent(all_candidates, Head(cb_normalized)), Tail(cb_normalized))

RECURSIVE MergePopularity(_, _)
MergePopularity(all_candidates, pop_normalized) ==
  IF pop_normalized = <<>> THEN all_candidates
  ELSE MergePopularity(AddPopularity(all_candidates, Head(pop_normalized)),
                       Tail(pop_normalized))

candidates_list(cf, cb, pop) ==
  MergePopularity(
    MergeContent(
      MergeCf(<<>>, normalize_scores(cf)),
      normalize_scores(cb)),
    normalize_scores(pop))

(***************************************************************************)
(* Penalties and bonus, each a function of the position in candidates_list *)
(***************************************************************************)
\* Only candidates[:top_k * 2] get a penalty; penalties.get(pid, 0) gives
\* the others 0.
calculate_diversity_penalty(candidates, top_k) ==
  [i \in DOMAIN candidates |->
     IF i > top_k * 2 THEN 0
     ELSE LET count == Cardinality({j \in 1..i :
                                      candidates[j].category = candidates[i].category})
          IN Min(count * 100, 500)]

MaxPopularity(candidates) ==
  CHOOSE m \in {candidates[i].popularity_score : i \in DOMAIN candidates} :
    \A i \in DOMAIN candidates : m >= candidates[i].popularity_score

calculate_novelty_bonus(candidates) ==
  [i \in DOMAIN candidates |->
     LET max_pop == MaxPopularity(candidates)
     IN IF max_pop > 0
        THEN Unit - (candidates[i].popularity_score * Unit) \div max_pop
        ELSE 500]

RECURSIVE SumAmount(_)
SumAmount(history) ==
  IF history = <<>> THEN 0 ELSE Head(history).amount + SumAmount(Tail(history))

\* Mutant: the penalty is not cut at 1.
calculate_price_penalty_Uncut(candidates, history) ==
  [i \in DOMAIN candidates |->
     IF history = <<>> THEN 0
     ELSE LET total == SumAmount(history)
          IN IF total > 0
             THEN (Abs(candidates[i].price * Len(history) - total) * Unit) \div total
             ELSE 0]

\* user_avg_price is SumAmount / Len, so |price - avg| / avg is
\* |price * Len - SumAmount| / SumAmount.
calculate_price_penalty(candidates, history) ==
  [i \in DOMAIN candidates |->
     IF history = <<>> THEN 0
     ELSE LET total == SumAmount(history)
              price_gap == IF total > 0
                           THEN (Abs(candidates[i].price * Len(history) - total) * Unit)
                                  \div total
                           ELSE 0
          IN Min(price_gap, Unit)]

(***************************************************************************)
(* Steps 4 and 5: the hybrid formula, the sort and the cut                 *)
(***************************************************************************)
\* Mutant: the diversity penalty is added.
HybridScore_DiversityAdded(c, diversity_penalty, novelty_bonus, price_penalty) ==
  w_cf * c.cf_score + w_cb * c.cb_score + w_pop * c.pop_score
    + lambda_div * diversity_penalty
    + beta_nov * novelty_bonus
    - gamma_price * price_penalty

HybridScore(c, diversity_penalty, novelty_bonus, price_penalty) ==
  w_cf * c.cf_score + w_cb * c.cb_score + w_pop * c.pop_score
    - lambda_div * diversity_penalty
    + beta_nov * novelty_bonus
    - gamma_price * price_penalty

ScoredPool(cf, cb, pop, history, top_k) ==
  LET cl == candidates_list(cf, cb, pop)
      diversity_penalties == calculate_diversity_penalty(cl, top_k)
      novelty_bonuses == calculate_novelty_bonus(cl)
      price_penalties == calculate_price_penalty(cl, history)
  IN [i \in DOMAIN cl |->
        [product_id |-> cl[i].product_id, category |-> cl[i].category,
         price |-> cl[i].price, popularity_score |-> cl[i].popularity_score,
         source |-> cl[i].source, cf_score |-> cl[i].cf_score,
         cb_score |-> cl[i].cb_score, pop_score |-> cl[i].pop_score,
         hybrid_score |-> HybridScore(cl[i], diversity_penalties[i],
                                      novelty_bonuses[i], price_penalties[i]),
         diversity_penalty |-> diversity_penalties[i],
         novelty_bonus |-> novelty_bonuses[i],
         price_penalty |-> price_penalties[i]]]

\* Mutant: the pool is returned in insertion order.
SortedByHybridScore_Unsorted(scored) == scored

SortedByHybridScore(scored) ==
  StableSortDesc(scored, [i \in DOMAIN scored |-> scored[i].hybrid_score])

\* Mutant: the sorted pool is not cut to k.
final_candidates_Uncut(scored, top_k) == SortedByHybridScore(scored)

final_candidates(scored, top_k) == Limit(SortedByHybridScore(scored), top_k)

(***************************************************************************)
(* RecommendationService.get_item_similar and its route                    *)
(***************************************************************************)
SimilarItem(s) ==
  [product_id |-> s.similar_product_id,
   category |-> catalog[s.similar_product_id].category,
   similarity_score |-> s.sim_score]

get_item_similar(product_id, top_k) ==
  {[i \in DOMAIN rows |-> SimilarItem(rows[i])] :
     rows \in SimilarQuery(sim_content, product_id, {}, top_k)}

\* RecommendationItem declares category: str, so building the response
\* raises for a NULL category and the route answers 500.
RouteStatus(items) ==
  IF \E i \in DOMAIN items : items[i].category = NULL THEN "error" ELSE "ok"

\* Mutant: the hybrid route answers an empty result with 404, as the
\* item-similar route does.
HybridRouteStatus_NotFound(items) ==
  IF items = <<>> THEN "notfound" ELSE RouteStatus(items)

\* get_user_hybrid_recommendations: an empty result is answered with [],
\* a non-empty one is converted item by item.
HybridRouteStatus(items) ==
  IF items = <<>> THEN "ok" ELSE RouteStatus(items)

\* get_item_similar (route): an empty result is answered with 404.
SimilarRouteStatus(items) ==
  IF items = <<>> THEN "notfound" ELSE RouteStatus(items)

(***************************************************************************)
(* The offline indexers: ml-engine/scripts/compute_item_knn_cf.py and      *)
(* ml-engine/scripts/compute_content_similarity.py                         *)
(*                                                                         *)
(* A row of a similarity table carries the number of the run that wrote    *)
(* it, so that two rows with equal columns are two rows, as in a table.    *)
(* Scores are in tenths here too; no cosine of eight users lies strictly   *)
(* between 0 and 0.1, so the rounding never decides the 0.01 threshold.    *)
(***************************************************************************)
MaxRuns == 2
\* The number of neighbours an indexer keeps per item.  CF_CONFIG['top_k']
\* and SIMILARITY_CONFIG['top_k'] are 50; three items need a smaller one for
\* the cut to happen.
TopK == 1
min_co_users == 5
min_item_purchases == 5
\* min_sim_score, in hundredths
min_sim_score == 1
Algorithm == "item_knn_cosine"
similarity_metric == "cosine"
Algorithms == {"cf", "content"}

Users == 1..8
IndexItems == 1..3

\* ml_interactions_implicit of the last six months as load_interactions
\* reads it: the users who bought each item.
Buyers(b1, b2, b3) ==
  [i \in IndexItems |-> CASE i = 1 -> b1 [] i = 2 -> b2 [] i = 3 -> b3]
CfInputs ==
  <<Buyers(1..5, 1..5, {}),
    Buyers(1..5, 2..6, 1..8),
    Buyers(1..4, 1..5, 1..5),
    Buyers(1..5, 2..6, {})>>

filter_items_by_popularity(buyers) ==
  {i \in DOMAIN buyers : Cardinality(buyers[i]) >= min_item_purchases}

co_users(buyers, i, j) == Cardinality(buyers[i] \cap buyers[j])

\* cosine of two columns of the binary user-item matrix, in tenths
cosine_similarity(buyers, i, j) ==
  LET n == Cardinality(buyers[i]) * Cardinality(buyers[j])
      c == co_users(buyers, i, j)
  IN CHOOSE r \in 0..10 : r * r * n <= 100 * c * c /\ 100 * c * c < (r + 1) * (r + 1) * n

\* Mutant: the co-user threshold is not applied.
CfNeighbours_AnyCoUsers(buyers, items, i) ==
  {j \in items \ {i} : ~ (cosine_similarity(buyers, i, j) * 10 < min_sim_score)}

\* The neighbours of item i that pass both "continue" tests of the loop.
CfNeighbours(buyers, items, i) ==
  {j \in items \ {i} : /\ ~ (cosine_similarity(buyers, i, j) * 10 < min_sim_score)
                       /\ co_users(buyers, i, j) >= min_co_users}

\* Mutant: a neighbour that fails a threshold takes a place of the TopK.
TopSimilar_FailedCounts(S, passes, key) ==
  {LET Passes(j) == j \in passes
   IN SelectSeq(Limit(r, TopK), Passes) : r \in OrderDesc(S, key)}

\* np.argsort(...)[::-1] and the loop with its count: the items of S are
\* walked best first, items with equal scores in any order; one that fails
\* a threshold is skipped, the walk ends with the TopK-th one that passes.
TopSimilar(S, passes, key) ==
  {LET Passes(j) == j \in passes
   IN Limit(SelectSeq(r, Passes), TopK) : r \in OrderDesc(S, key)}

\* The edge sets a run can compute from the interactions.
compute_item_similarities(buyers) ==
  LET items == filter_items_by_popularity(buyers)
      near(i) == CfNeighbours(buyers, items, i)
      item_similarities(i) ==
        [j \in items |-> IF j = i THEN -10 ELSE cosine_similarity(buyers, i, j)]
      lists(i) == TopSimilar(items, near(i), item_similarities(i))
      choices == {f \in [items -> UNION {lists(i) : i \in items}] :
                    \A i \in items : f[i] \in lists(i)}
  IN {UNION {{Edge(i, f[i][n], cosine_similarity(buyers, i, f[i][n]),
                   co_users(buyers, i, f[i][n])) : n \in DOMAIN f[i]} : i \in items} :
      f \in choices}

\* The similarity matrix compute_similarity_matrix hands to
\* extract_top_similar, in tenths: symmetric, 1.0 on the diagonal.
Matrix(s12, s13, s23) ==
  [i \in IndexItems |-> [j \in IndexItems |->
     IF i = j THEN 10
     ELSE CASE {i, j} = {1, 2} -> s12 [] {i, j} = {1, 3} -> s13 [] {i, j} = {2, 3} -> s23]]
ContentInputs == <<Matrix(0, 0, 0), Matrix(9, 5, 0), Matrix(5, 5, 9)>>

extract_top_similar(similarity_matrix) ==
  LET items == DOMAIN similarity_matrix
      sim_scores(i) == [similarity_matrix[i] EXCEPT ![i] = -10]
      near(i) == {idx \in items : ~ (sim_scores(i)[idx] * 10 < min_sim_score)}
      lists(i) == TopSimilar(items, near(i), sim_scores(i))
      choices == {f \in [items -> UNION {lists(i) : i \in items}] :
                    \A i \in items : f[i] \in lists(i)}
  IN {UNION {{Edge(i, f[i][n], sim_scores(i)[f[i][n]], 0) : n \in DOMAIN f[i]} : i \in items} :
      f \in choices}

\* save_similarities_to_db
CfRow(sim, run) ==
  [product_id |-> sim.product_id, similar_product_id |-> sim.similar_product_id,
   sim_score |-> sim.sim_score, co_users |-> sim.co_users,
   algorithm |-> Algorithm, run |-> run]
ContentRow(sim, run) ==
  [product_id |-> sim.product_id, similar_product_id |-> sim.similar_product_id,
   sim_score |-> sim.sim_score, co_users |-> sim.co_users, run |-> run]
InsertedRows(alg, similarities, run) ==
  IF alg = "cf" THEN {CfRow(sim, run) : sim \in similarities}
  ELSE {ContentRow(sim, run) : sim \in similarities}

\* The rows the DELETE statement of the script removes.
DeletedRows(alg, table) ==
  IF alg = "cf" THEN {r \in table : r.algorithm = similarity_metric}
  ELSE table

EdgeOf(r) == Edge(r.product_id, r.similar_product_id, r.sim_score, r.co_users)
SimEdges(table) == {EdgeOf(r) : r \in table}
PairOf(r) == <<r.product_id, r.similar_product_id>>
Collides(kept, new) == \E a \in kept, b \in new : PairOf(a) = PairOf(b)
Table(alg) == IF alg = "cf" THEN sim_cf ELSE sim_content

IdleIndexer ==
  [algorithm |-> "none", pc |-> "idle", run |-> 0, input |-> 0, similarities |-> {},
   prior |-> {}, prev_input |-> 0, prev_similarities |-> {}, deleted |-> FALSE,
   validated |-> FALSE]
NoSnapshots == [alg \in Algorithms |-> [version |-> 0, input |-> 0, similarities |-> {}]]
IdleReader ==
  [pc |-> "idle", algorithm |-> "none", i |-> 0, candidates |-> <<>>, versions |-> <<>>]

(***************************************************************************)
(* Initial state                                                           *)
(***************************************************************************)
Sources == {"cf", "content", "popularity"}

Init ==
  /\ catalog \in Catalogs
  /\ sim_cf \in EdgeSets(CfEdgePool)
  /\ sim_content \in EdgeSets(ContentEdgePool)
  /\ interactions = <<>>
  /\ pc = "Idle"
  /\ k = 0
  /\ user_history = <<>>
  /\ hist_cf = <<>>
  /\ hist_cb = <<>>
  /\ hist_pop = <<>>
  /\ cf_candidates = <<>>
  /\ cb_candidates = <<>>
  /\ pop_candidates = <<>>
  /\ failed = {}
  /\ pool = <<>>
  /\ recommendations = <<>>
  /\ item_similar = <<>>
  /\ status = "none"
  /\ indexer = IdleIndexer
  /\ snapshots = NoSnapshots
  /\ unique_pairs = FALSE
  /\ reader = IdleReader

(***************************************************************************)
(* The environment: the interaction log grows, days pass                   *)
(***************************************************************************)
RecordInteraction(p, a) ==
  /\ Len(interactions) < MaxLog
  /\ interactions' = <<[product_id |-> p, days_ago |-> 0, amount |-> a]>> \o interactions
  /\ UNCHANGED <<tables, indexing, request>>

DayPasses ==
  /\ pc = "Idle"
  /\ interactions # <<>>
  /\ \A i \in DOMAIN interactions : interactions[i].days_ago < MaxDay
  /\ interactions' = [i \in DOMAIN interactions |->
                        [interactions[i] EXCEPT !.days_ago = @ + 1]]
  /\ UNCHANGED <<tables, indexing, request>>

(***************************************************************************)
(* GET /user-hybrid: get_hybrid_recommendations, one step per stage        *)
(***************************************************************************)
Recommend(top_k) ==
  /\ pc = "Idle"
  /\ pc' = "SeedSelection"
  /\ k' = top_k
  /\ UNCHANGED <<tables, indexing, interactions, user_history, hist_cf, hist_cb, hist_pop,
                 cf_candidates, cb_candidates, pop_candidates, failed, pool,
                 recommendations, item_similar, status>>

\* line 450: the history read that feeds the price penalty
SeedSelection ==
  /\ pc = "SeedSelection"
  /\ user_history' = get_user_purchase_history
  /\ pc' = "CF"
  /\ UNCHANGED <<tables, indexing, interactions, k, hist_cf, hist_cb, hist_pop,
                 cf_candidates, cb_candidates, pop_candidates, failed, pool,
                 recommendations, item_similar, status>>

\* the same read raises: nothing catches it before the route, which answers 500
SeedSelectionFails ==
  /\ pc = "SeedSelection"
  /\ pc' = "Failed"
  /\ status' = "error"
  /\ UNCHANGED <<tables, indexing, interactions, k, user_history, hist_cf, hist_cb, hist_pop,
                 cf_candidates, cb_candidates, pop_candidates, failed, pool,
                 recommendations, item_similar>>

GetCfCandidates ==
  /\ pc = "CF"
  /\ hist_cf' = get_user_purchase_history
  /\ cf_candidates' \in get_cf_candidates(hist_cf', cf_limit)
  /\ pc' = "CB"
  /\ UNCHANGED <<tables, indexing, interactions, k, user_history, hist_cb, hist_pop,
                 cb_candidates, pop_candidates, failed, pool,
                 recommendations, item_similar, status>>

GetContentCandidates ==
  /\ pc = "CB"
  /\ hist_cb' = get_user_purchase_history
  /\ cb_candidates' \in get_content_candidates(hist_cb', cb_limit)
  /\ pc' = "Popularity"
  /\ UNCHANGED <<tables, indexing, interactions, k, user_history, hist_cf, hist_pop,
                 cf_candidates, pop_candidates, failed, pool,
                 recommendations, item_similar, status>>

GetPopularityCandidates ==
  /\ pc = "Popularity"
  /\ hist_pop' = get_user_purchase_history
  /\ pop_candidates' \in get_popularity_candidates(hist_pop', pop_limit)
  /\ pc' = "Merge"
  /\ UNCHANGED <<tables, indexing, interactions, k, user_history, hist_cf, hist_cb,
                 cf_candidates, cb_candidates, failed, pool,
                 recommendations, item_similar, status>>

StageOf(source) ==
  CASE source = "cf" -> "CF" [] source = "content" -> "CB" [] source = "popularity" -> "Popularity"
NextStage(source) ==
  CASE source = "cf" -> "CB" [] source = "content" -> "Popularity" [] source = "popularity" -> "Merge"

\* Mutant: the except clause of a source raises again.
SourceFails_Raises(source) ==
  /\ pc = StageOf(source)
  /\ failed' = failed \cup {source}
  /\ pc' = "Failed"
  /\ status' = "error"
  /\ UNCHANGED <<tables, indexing, interactions, k, user_history, hist_cf, hist_cb, hist_pop,
                 cf_candidates, cb_candidates, pop_candidates, pool,
                 recommendations, item_similar>>

\* A database error inside a source: its except clause logs and returns [].
SourceFails(source) ==
  /\ pc = StageOf(source)
  /\ failed' = failed \cup {source}
  /\ pc' = NextStage(source)
  /\ UNCHANGED <<tables, indexing, interactions, k, user_history, hist_cf, hist_cb, hist_pop,
                 cf_candidates, cb_candidates, pop_candidates, pool,
                 recommendations, item_similar, status>>

\* The database never answers a source's call: the call has no timeout and
\* the sources run one after the other, so the request stays in that call.
SourceHangs(source) ==
  /\ pc = StageOf(source)
  /\ pc' = "Blocked"
  /\ UNCHANGED <<tables, indexing, interactions, k, user_history, hist_cf, hist_cb, hist_pop,
                 cf_candidates, cb_candidates, pop_candidates, failed, pool,
                 recommendations, item_similar, status>>

\* merge_and_rerank_candidates, then the route builds the response
MergeAndRerank ==
  /\ pc = "Merge"
  /\ pool' = ScoredPool(cf_candidates, cb_candidates, pop_candidates, user_history, k)
  /\ recommendations' = final_candidates(pool', k)
  /\ status' = HybridRouteStatus(recommendations')
  /\ pc' = "Done"
  /\ UNCHANGED <<tables, indexing, interactions, k, user_history, hist_cf, hist_cb, hist_pop,
                 cf_candidates, cb_candidates, pop_candidates, failed, item_similar>>

(***************************************************************************)
(* GET /item-similar                                                       *)
(***************************************************************************)
GetItemSimilar(product_id, top_k) ==
  /\ pc = "Idle"
  /\ item_similar' \in get_item_similar(product_id, top_k)
  /\ status' = SimilarRouteStatus(item_similar')
  /\ k' = top_k
  /\ pc' = "SimilarDone"
  /\ UNCHANGED <<tables, indexing, interactions, user_history, hist_cf, hist_cb, hist_pop,
                 cf_candidates, cb_candidates, pop_candidates, failed, pool,
                 recommendations>>

GetItemSimilarFails ==
  /\ pc = "Idle"
  /\ status' = "error"
  /\ pc' = "SimilarDone"
  /\ UNCHANGED <<tables, indexing, interactions, k, user_history, hist_cf, hist_cb, hist_pop,
                 cf_candidates, cb_candidates, pop_candidates, failed, pool,
                 recommendations, item_similar>>

RequestStep ==
  \/ SeedSelection
  \/ GetCfCandidates
  \/ GetContentCandidates
  \/ GetPopularityCandidates
  \/ MergeAndRerank

Next ==
  \/ \E p \in PurchasedItems, a \in Amounts : RecordInteraction(p, a)
  \/ DayPasses
  \/ \E top_k \in 1..MaxK : Recommend(top_k)
  \/ SeedSelection
  \/ SeedSelectionFails
  \/ GetCfCandidates
  \/ GetContentCandidates
  \/ GetPopularityCandidates
  \/ \E source \in Sources : SourceFails(source)
  \/ \E source \in Sources : SourceHangs(source)
  \/ MergeAndRerank
  \/ \E p \in Items, top_k \in 1..MaxK : GetItemSimilar(p, top_k)
  \/ GetItemSimilarFails

Spec == Init /\ [][Next]_vars

\* A handler that is not waiting for the database runs on.
FairSpec == Spec /\ WF_vars(RequestStep)

(***************************************************************************)
(* The indexer scripts, one run at a time, next to a source scan of the    *)
(* engine that takes one step per SELECT.  The two scripts write different *)
(* tables; DELETE and INSERT of a run belong to one transaction, so the    *)
(* table a reader sees changes at the commit only.                         *)
(***************************************************************************)
IndexLog ==
  <<[product_id |-> 1, days_ago |-> 0, amount |-> 10],
    [product_id |-> 2, days_ago |-> 0, amount |-> 10]>>

IndexInit ==
  /\ catalog = Features
  /\ sim_cf = {}
  /\ sim_content = {}
  /\ interactions = IndexLog
  /\ pc = "Idle"
  /\ k = 0
  /\ user_history = <<>>
  /\ hist_cf = <<>>
  /\ hist_cb = <<>>
  /\ hist_pop = <<>>
  /\ cf_candidates = <<>>
  /\ cb_candidates = <<>>
  /\ pop_candidates = <<>>
  /\ failed = {}
  /\ pool = <<>>
  /\ recommendations = <<>>
  /\ item_similar = <<>>
  /\ status = "none"
  /\ indexer = IdleIndexer
  /\ snapshots = NoSnapshots
  /\ unique_pairs \in BOOLEAN
  /\ reader = IdleReader

CanStart == indexer.pc \in {"idle", "done", "failed"} /\ indexer.run < MaxRuns

RunOf(alg, input, similarities) ==
  [algorithm |-> alg, pc |-> "computed", run |-> indexer.run + 1, input |-> input,
   similarities |-> similarities, prior |-> Table(alg),
   prev_input |-> snapshots[alg].input,
   prev_similarities |-> snapshots[alg].similarities, deleted |-> FALSE,
   validated |-> FALSE]

\* run_item_knn_cf_pipeline up to the save: an empty result raises
\* ValueError("No similarities generated - check thresholds").
ComputeItemSimilarities(input) ==
  /\ CanStart
  /\ \E similarities \in compute_item_similarities(CfInputs[input]) :
       indexer' = [RunOf("cf", input, similarities) EXCEPT
                     !.pc = IF similarities = {} THEN "failed" ELSE "computed"]
  /\ UNCHANGED <<tables, interactions, request, snapshots, unique_pairs, reader>>

\* run_content_similarity_pipeline up to the save: whatever
\* extract_top_similar returns goes to save_similarities_to_db.
ExtractTopSimilar(input) ==
  /\ CanStart
  /\ \E similarities \in extract_top_similar(ContentInputs[input]) :
       indexer' = RunOf("content", input, similarities)
  /\ UNCHANGED <<tables, interactions, request, snapshots, unique_pairs, reader>>

\* Mutant: the DELETE is committed on its own.
DeleteSimilarities_Autocommit ==
  /\ indexer.pc = "computed"
  /\ indexer' = [indexer EXCEPT !.pc = "deleted", !.deleted = TRUE]
  /\ sim_cf' = IF indexer.algorithm = "cf"
               THEN sim_cf \ DeletedRows("cf", sim_cf) ELSE sim_cf
  /\ sim_content' = IF indexer.algorithm = "content"
                    THEN sim_content \ DeletedRows("content", sim_content)
                    ELSE sim_content
  /\ UNCHANGED <<catalog, interactions, request, snapshots, unique_pairs, reader>>

\* cur.execute("DELETE ..."): inside the transaction, seen by nobody yet
DeleteSimilarities ==
  /\ indexer.pc = "computed"
  /\ indexer' = [indexer EXCEPT !.pc = "deleted", !.deleted = TRUE]
  /\ UNCHANGED <<tables, interactions, request, snapshots, unique_pairs, reader>>

\* cur.executemany(insert_query, ...) and self.conn.commit().  An insert a
\* unique index refuses raises; the connection is closed without a commit.
InsertSimilarities ==
  /\ indexer.pc = "deleted"
  /\ LET alg == indexer.algorithm
         kept == Table(alg) \ DeletedRows(alg, Table(alg))
         new == InsertedRows(alg, indexer.similarities, indexer.run)
     IN IF alg = "cf" /\ unique_pairs /\ Collides(kept, new)
        THEN /\ indexer' = [indexer EXCEPT !.pc = "failed"]
             /\ UNCHANGED <<sim_cf, sim_content, snapshots>>
        ELSE /\ sim_cf' = IF alg = "cf" THEN kept \cup new ELSE sim_cf
             /\ sim_content' = IF alg = "content" THEN kept \cup new ELSE sim_content
             /\ snapshots' = [snapshots EXCEPT ![alg] =
                                [version |-> @.version + 1, input |-> indexer.input,
                                 similarities |-> indexer.similarities]]
             /\ indexer' = [indexer EXCEPT !.pc = IF alg = "cf" THEN "committed" ELSE "done"]
  /\ UNCHANGED <<catalog, interactions, request, unique_pairs, reader>>

\* A database error in save_similarities_to_db: the pipeline logs, raises
\* again and closes the connection, which drops the open transaction.
SaveSimilaritiesFails ==
  /\ indexer.pc \in {"computed", "deleted"}
  /\ indexer' = [indexer EXCEPT !.pc = "failed"]
  /\ UNCHANGED <<tables, interactions, request, snapshots, unique_pairs, reader>>

\* validate_cf_quality: reads the committed table and logs what it finds
ValidateCfQuality ==
  /\ indexer.pc = "committed"
  /\ indexer' = [indexer EXCEPT !.pc = "done", !.validated = TRUE]
  /\ UNCHANGED <<tables, interactions, request, snapshots, unique_pairs, reader>>

\* The seeds a source scan loops over.
ScanHistory(alg) ==
  IF alg = "cf" THEN hist_cf ELSE Limit(hist_cb, content_history_items)

\* get_cf_candidates / get_content_candidates read the history first.
ReadHistory(alg) ==
  /\ reader.pc \in {"idle", "done"}
  /\ reader' = [pc |-> "scan", algorithm |-> alg, i |-> 1, candidates |-> <<>>,
                versions |-> <<>>]
  /\ hist_cf' = IF alg = "cf" THEN get_user_purchase_history ELSE hist_cf
  /\ hist_cb' = IF alg = "content" THEN get_user_purchase_history ELSE hist_cb
  /\ UNCHANGED <<tables, interactions, pc, k, user_history, hist_pop, cf_candidates,
                 cb_candidates, pop_candidates, failed, pool, recommendations,
                 item_similar, status, indexer, snapshots, unique_pairs>>

\* One cur.execute(cf_query / content_query) of the loop over the seeds: a
\* statement of its own, answered from the table as committed at that time.
Lookup ==
  /\ reader.pc = "scan"
  /\ reader.i <= Len(ScanHistory(reader.algorithm))
  /\ LET alg == reader.algorithm
         history == IF alg = "cf" THEN hist_cf ELSE hist_cb
         hist_item == history[reader.i]
     IN \E similar_items \in SimilarQuery(Table(alg), hist_item.product_id, Ids(history),
                                          IF alg = "cf" THEN cf_query_limit
                                          ELSE content_query_limit) :
          reader' = [reader EXCEPT
                       !.i = @ + 1,
                       !.candidates = AddRows(@, similar_items,
                                              IF alg = "cf" THEN recency_weight(hist_item)
                                              ELSE 1, alg),
                       !.versions = Append(@, snapshots[alg].version)]
  /\ UNCHANGED <<tables, interactions, request, indexer, snapshots, unique_pairs>>

\* sorted(candidates.values(), key=score, reverse=True)[:limit]
FinishScan ==
  /\ reader.pc = "scan"
  /\ reader.i > Len(ScanHistory(reader.algorithm))
  /\ reader' = [reader EXCEPT !.pc = "done"]
  /\ cf_candidates' = IF reader.algorithm = "cf"
                      THEN Limit(SortedByScore(reader.candidates), cf_limit)
                      ELSE cf_candidates
  /\ cb_candidates' = IF reader.algorithm = "content"
                      THEN Limit(SortedByScore(reader.candidates), cb_limit)
                      ELSE cb_candidates
  /\ UNCHANGED <<tables, interactions, pc, k, user_history, hist_cf, hist_cb, hist_pop,
                 pop_candidates, failed, pool, recommendations, item_similar, status,
                 indexer, snapshots, unique_pairs>>

IndexNext ==
  \/ \E input \in DOMAIN CfInputs : ComputeItemSimilarities(input)
  \/ \E input \in DOMAIN ContentInputs : ExtractTopSimilar(input)
  \/ DeleteSimilarities
  \/ InsertSimilarities
  \/ SaveSimilaritiesFails
  \/ ValidateCfQuality
  \/ \E alg \in Algorithms : ReadHistory(alg)
  \/ Lookup
  \/ FinishScan

IndexSpec == IndexInit /\ [][IndexNext]_vars

(***************************************************************************)
(* merge_and_rerank_candidates on its own: the three source lists, the     *)
(* history and k are drawn, the merge is applied.  A source list is what a *)
(* retriever returns: distinct items, best score first.                    *)
(***************************************************************************)
CfItems == {2, 3, 4}
CfScores == {2000, 5000, 9000}
CbItems == {2, 4}
CbScores == {5, 8}
Purchase(p, d, a) == [product_id |-> p, days_ago |-> d, amount |-> a]
\* No purchase; one; two of 20 on average; one that cost nothing; two of
\* item 4, which has no category, of 5 on average.
Histories ==
  {<<>>,
   <<Purchase(1, 0, 10)>>,
   <<Purchase(1, 0, 10), Purchase(1, 1, 30)>>,
   <<Purchase(1, 0, 0)>>,
   <<Purchase(4, 0, 5), Purchase(4, 1, 5)>>}

SourceLists(items, scores, source) ==
  LET rows == items \X scores
      lists == UNION {[1..m -> rows] : m \in 0..Cardinality(items)}
  IN {[i \in DOMAIN s |-> Candidate(s[i][1], s[i][2], source)] :
      s \in {t \in lists :
               /\ \A i, j \in DOMAIN t : i # j => t[i][1] # t[j][1]
               /\ \A i, j \in DOMAIN t : i < j => t[i][2] >= t[j][2]}}

MergeInit ==
  /\ catalog \in Catalogs
  /\ sim_cf = {}
  /\ sim_content = {}
  /\ interactions \in Histories
  /\ pc = "Merge"
  /\ k \in 1..MaxK
  /\ user_history = interactions
  /\ hist_cf = interactions
  /\ hist_cb = interactions
  /\ hist_pop = interactions
  /\ cf_candidates \in IF Len(hist_cf) < cf_min_history THEN {<<>>}
                       ELSE SourceLists(CfItems \ Ids(hist_cf), CfScores, "cf")
  /\ cb_candidates \in IF hist_cb = <<>> THEN {<<>>}
                       ELSE SourceLists(CbItems \ Ids(hist_cb), CbScores, "content")
  /\ pop_candidates \in get_popularity_candidates(hist_pop, pop_limit)
  /\ failed = {}
  /\ pool = <<>>
  /\ recommendations = <<>>
  /\ item_similar = <<>>
  /\ status = "none"
  /\ indexer = IdleIndexer
  /\ snapshots = NoSnapshots
  /\ unique_pairs = FALSE
  /\ reader = IdleReader

MergeNext == MergeAndRerank

MergeSpec == MergeInit /\ [][MergeNext]_vars

(***************************************************************************)
(* get_content_candidates on its own: a request at its content stage, for  *)
(* every purchase log of up to four different items (the entry at rank r   *)
(* is r days old) and every content table over the edges below.            *)
(***************************************************************************)
ContentSeeds == {1, 2, 4, 6}
ContentEdges ==
  {Edge(1, 3, 5, 0), Edge(2, 3, 8, 0), Edge(4, 3, 7, 0), Edge(6, 3, 9, 0),
   Edge(1, 2, 7, 0)}
ContentLogs ==
  LET lists == UNION {[1..m -> ContentSeeds] : m \in 0..Cardinality(ContentSeeds)}
  IN {[i \in DOMAIN s |-> Purchase(s[i], i - 1, 10)] :
      s \in {t \in lists : \A i, j \in DOMAIN t : i # j => t[i] # t[j]}}

ContentInit ==
  /\ catalog = Features
  /\ sim_cf = {}
  /\ sim_content \in SUBSET ContentEdges
  /\ interactions \in ContentLogs
  /\ pc = "CB"
  /\ k = 1
  /\ user_history = get_user_purchase_history
  /\ hist_cf = get_user_purchase_history
  /\ hist_cb = <<>>
  /\ hist_pop = <<>>
  /\ cf_candidates = <<>>
  /\ cb_candidates = <<>>
  /\ pop_candidates = <<>>
  /\ failed = {}
  /\ pool = <<>>
  /\ recommendations = <<>>
  /\ item_similar = <<>>
  /\ status = "none"
  /\ indexer = IdleIndexer
  /\ snapshots = NoSnapshots
  /\ unique_pairs = FALSE
  /\ reader = IdleReader

ContentNext == GetContentCandidates

ContentSpec == ContentInit /\ [][ContentNext]_vars

(***************************************************************************)
(* Properties                                                              *)
(***************************************************************************)
ActiveCatalog == {p \in DOMAIN catalog : catalog[p].is_active}
AfterCf == pc \in {"CB", "Popularity", "Merge", "Done"}
AfterContent == pc \in {"Popularity", "Merge", "Done"}
AfterPopularity == pc \in {"Merge", "Done"}
Returned(source) ==
  CASE source = "cf" -> AfterCf /\ "cf" \notin failed
    [] source = "content" -> AfterContent /\ "content" \notin failed
    [] source = "popularity" -> AfterPopularity /\ "popularity" \notin failed

\* C1: no returned recommendation is an item of the user's history, and each
\* source list leaves its retriever without any item of the history it read.
C1_NoHistoryItemReturned ==
  /\ Ids(cf_candidates) \cap Ids(hist_cf) = {}
  /\ Ids(cb_candidates) \cap Ids(hist_cb) = {}
  /\ Ids(pop_candidates) \cap Ids(hist_pop) = {}
  /\ pc = "Done" => Ids(recommendations) \cap Ids(user_history) = {}

\* C2: the returned list is in non-increasing hybrid_score order and no pool
\* item that was cut off scores higher than a returned one.
C2_SortedByHybridScore ==
  pc = "Done" =>
    /\ \A i \in 1..(Len(recommendations) - 1) :
         recommendations[i].hybrid_score >= recommendations[i + 1].hybrid_score
    /\ \A i \in DOMAIN pool :
         pool[i].product_id \notin Ids(recommendations) =>
           \A j \in DOMAIN recommendations :
             pool[i].hybrid_score <= recommendations[j].hybrid_score

C2_Witness ==
  /\ pc = "Done"
  /\ Len(recommendations) = 2
  /\ Len(pool) > 2
  /\ recommendations[1].hybrid_score > recommendations[2].hybrid_score
  /\ pool[1].product_id # recommendations[1].product_id

\* C3: of two returned items with equal hybrid scores the one with the
\* smaller item_id comes first.
C3_TiesByAscendingId ==
  pc = "Done" =>
    \A i, j \in DOMAIN recommendations :
      (i < j /\ recommendations[i].hybrid_score = recommendations[j].hybrid_score)
        => recommendations[i].product_id < recommendations[j].product_id

C5_AllEmptyGivesEmptyList ==
  (pc = "Done" /\ failed = {} /\ cf_candidates = <<>> /\ cb_candidates = <<>>
     /\ pop_candidates = <<>>)
    => (recommendations = <<>> /\ status = "ok")

C5_Witness ==
  /\ pc = "Done"
  /\ failed = {}
  /\ interactions # <<>>
  /\ cf_candidates = <<>> /\ cb_candidates = <<>> /\ pop_candidates = <<>>
  /\ recommendations = <<>>
  /\ status = "ok"

\* C6: when all three source lookups fail the request fails; it does not
\* answer normally.
C6_AllFailedIsAnError ==
  (pc = "Done" /\ failed = Sources) => status = "error"

\* C7: when one or two sources fail, each failing source contributes the
\* empty list, the failure does not fail the request, and the pool is the
\* union of the lists of the sources that returned.
C7_PartialFailureDegrades ==
  (failed # {} /\ failed # Sources) =>
    /\ pc # "Failed"
    /\ "cf" \in failed => cf_candidates = <<>>
    /\ "content" \in failed => cb_candidates = <<>>
    /\ "popularity" \in failed => pop_candidates = <<>>
    /\ pc = "Done" =>
         /\ Ids(pool) = UNION {IF "cf" \in failed THEN {} ELSE Ids(cf_candidates),
                               IF "content" \in failed THEN {} ELSE Ids(cb_candidates),
                               IF "popularity" \in failed THEN {} ELSE Ids(pop_candidates)}
         /\ Len(pool) = Cardinality(Ids(pool))
         /\ Ids(recommendations) \subseteq Ids(pool)
         /\ Len(recommendations) = Min(k, Len(pool))

C7_Witness ==
  /\ pc = "Done"
  /\ failed = {"cf"}
  /\ Ids(cb_candidates) \ Ids(pop_candidates) # {}
  /\ Ids(pop_candidates) \ Ids(cb_candidates) # {}
  /\ recommendations # <<>>

\* C8: a request that has started ends, also when a source never answers.
C8_RequestEnds == (pc = "SeedSelection") ~> (pc \in {"Done", "Failed"})

\* C9: with fewer than cf_min_history interactions the CF list is empty and
\* no pool entry has a CF score, the content and popularity sources still
\* deliver what the tables hold for that user, and the result is non-empty
\* when either of them is.
C9_ShortHistorySkipsCf ==
  (Returned("cf") /\ Len(hist_cf) < cf_min_history) =>
    /\ cf_candidates = <<>>
    /\ (Returned("content") /\ hist_cb # <<>>
          /\ \E i \in DOMAIN hist_cb :
               SimilarRows(sim_content, hist_cb[i].product_id, Ids(hist_cb)) # {})
         => cb_candidates # <<>>
    /\ (Returned("popularity")
          /\ \E p \in ActiveCatalog \ Ids(hist_pop) : catalog[p].popularity_30d > 0)
         => pop_candidates # <<>>
    /\ pc = "Done" =>
         /\ \A i \in DOMAIN pool : pool[i].cf_score = 0
         /\ (cb_candidates # <<>> \/ pop_candidates # <<>>) => recommendations # <<>>

C9_Witness ==
  /\ pc = "Done"
  /\ failed = {}
  /\ Len(hist_cf) = 1
  /\ \E s \in sim_cf : s.product_id = hist_cf[1].product_id /\ s.similar_product_id = 3
  /\ cf_candidates = <<>>
  /\ cb_candidates # <<>>
  /\ pop_candidates # <<>>
  /\ recommendations # <<>>

\* C10: every item a source, Recommend or SimilarItems returns has a row in
\* the catalog and is active.
C10_OnlyActiveCatalogItems ==
  /\ Ids(cf_candidates) \subseteq ActiveCatalog
  /\ Ids(cb_candidates) \subseteq ActiveCatalog
  /\ Ids(pop_candidates) \subseteq ActiveCatalog
  /\ Ids(recommendations) \subseteq ActiveCatalog
  /\ Ids(item_similar) \subseteq ActiveCatalog

\* An edge to an inactive item and an edge to an item without a catalog row
\* were there to be dropped.
C10_Witness ==
  /\ pc = "Done"
  /\ failed = {}
  /\ recommendations # <<>>
  /\ Len(hist_cf) >= cf_min_history
  /\ \E s \in sim_cf : /\ s.product_id \in Ids(hist_cf)
                       /\ s.similar_product_id \in DOMAIN catalog
                       /\ ~catalog[s.similar_product_id].is_active
  /\ \E s \in sim_content : /\ s.product_id \in Ids(hist_cb)
                            /\ s.similar_product_id \notin DOMAIN catalog

(***************************************************************************)
(* Properties of the index rebuilds                                        *)
(***************************************************************************)
Committed == indexer.pc \in {"committed", "done"}

\* C11: all the edge lookups one source scan makes, one per history seed, are
\* answered from the same snapshot of the algorithm's table.
C11_OneSnapshotPerScan ==
  \A i, j \in DOMAIN reader.versions : reader.versions[i] = reader.versions[j]

\* C12: after a rebuild that committed, the edges of the algorithm's table
\* are exactly the edges that run computed.
C12_SnapshotIsTheComputedSet ==
  Committed => SimEdges(Table(indexer.algorithm)) = indexer.similarities

\* C13: a rebuild that follows a rebuild of the same algorithm on the same
\* input leaves the table as it found it: the same edges, no row more.
C13_RebuildIsIdempotent ==
  (/\ Committed
   /\ indexer.prev_input = indexer.input
   /\ indexer.prev_similarities = indexer.similarities)
  => /\ SimEdges(Table(indexer.algorithm)) = SimEdges(indexer.prior)
     /\ Cardinality(Table(indexer.algorithm)) = Cardinality(indexer.prior)

\* C14: a content rebuild that computed no edge leaves the content table as
\* it was before the run.
C14_EmptyContentRunKeepsSnapshot ==
  (indexer.algorithm = "content" /\ indexer.similarities = {})
  => sim_content = indexer.prior

\* C15: the collaborative table changes only after the quality check of the
\* run has decided.
C15_QualityDecidesBeforeCommit ==
  [][sim_cf' # sim_cf => indexer.validated]_vars

\* C16: in every committed table no edge points from an item to itself and
\* no item has more than TopK outgoing edges.
C16_NoSelfEdgeAtMostK ==
  \A alg \in Algorithms : \A r \in Table(alg) :
    /\ r.similar_product_id # r.product_id
    /\ Cardinality({x \in Table(alg) : x.product_id = r.product_id}) <= TopK

\* C17: every collaborative edge carries the number of users who bought both
\* items, that number is at least min_co_users, and both items have at least
\* min_item_purchases buyers; a pair with fewer common buyers has no edge.
C17_CoUsersAtLeastThreshold ==
  indexer.algorithm = "cf" =>
    LET buyers == CfInputs[indexer.input]
    IN /\ \A e \in indexer.similarities \cup SimEdges(sim_cf) :
            e.co_users >= min_co_users
       /\ \A e \in indexer.similarities :
            /\ e.co_users = Cardinality(buyers[e.product_id] \cap buyers[e.similar_product_id])
            /\ Cardinality(buyers[e.product_id]) >= min_item_purchases
            /\ Cardinality(buyers[e.similar_product_id]) >= min_item_purchases
       /\ \A i, j \in IndexItems :
            Cardinality(buyers[i] \cap buyers[j]) < min_co_users
            => ~ \E e \in indexer.similarities :
                   e.product_id = i /\ e.similar_product_id = j

\* Items 1 and 2 share four of their five buyers (cosine 0.8) and get no
\* edge, while each gets one with item 3; the run was saved and validated.
C17_Witness ==
  /\ indexer.algorithm = "cf"
  /\ indexer.pc = "done"
  /\ indexer.input = 2
  /\ cosine_similarity(CfInputs[2], 1, 2) = 8
  /\ Cardinality(CfInputs[2][1] \cap CfInputs[2][2]) = 4
  /\ \E e \in indexer.similarities : e.product_id = 1 /\ e.similar_product_id = 3
  /\ SimEdges(sim_cf) = indexer.similarities

(***************************************************************************)
(* Properties of the merge                                                 *)
(***************************************************************************)
SourceListOf(source) ==
  CASE source = "cf" -> cf_candidates
    [] source = "content" -> cb_candidates
    [] source = "popularity" -> pop_candidates

\* The normalized score of item pid in the list of a source, 0 when the list
\* does not hold the item.
NormOf(source, pid) ==
  LET n == normalize_scores(SourceListOf(source))
  IN IF pid \in Ids(n)
     THEN n[CHOOSE j \in DOMAIN n : n[j].product_id = pid].score_normalized
     ELSE 0

PoolScore(c, source) ==
  CASE source = "cf" -> c.cf_score
    [] source = "content" -> c.cb_score
    [] source = "popularity" -> c.pop_score

\* What the claim asks of normalize_scores on one list.
MinMaxScaled(candidates) ==
  LET n == normalize_scores(candidates)
      scores == {candidates[i].score : i \in DOMAIN candidates}
  IN IF candidates = <<>> THEN n = candidates
     ELSE /\ DOMAIN n = DOMAIN candidates
          /\ \A i \in DOMAIN n : n[i].product_id = candidates[i].product_id
          /\ IF Cardinality(scores) = 1
             THEN \A i \in DOMAIN n : n[i].score_normalized = Unit
             ELSE \A i, j \in DOMAIN n :
                    /\ n[i].score_normalized >= 0
                    /\ n[i].score_normalized <= Unit
                    /\ (\A s \in scores : candidates[i].score <= s)
                       => n[i].score_normalized = 0
                    /\ (\A s \in scores : candidates[i].score >= s)
                       => n[i].score_normalized = Unit
                    /\ candidates[i].score <= candidates[j].score
                       => n[i].score_normalized <= n[j].score_normalized

\* C18: normalize_scores maps the lowest score of a list to 0, the highest to
\* 1, keeps the order and the range, gives 1 to all when all are equal and
\* returns an empty list as it is; the pool carries for each source the
\* score normalized within that source's own list.
C18_NormalizedPerSource ==
  /\ \A source \in Sources : MinMaxScaled(SourceListOf(source))
  /\ pc = "Done" =>
       \A i \in DOMAIN pool : \A source \in Sources :
         pool[i].product_id \in Ids(SourceListOf(source))
         => PoolScore(pool[i], source) = NormOf(source, pool[i].product_id)

\* Three distinct scores in one list, two equal scores in another, an empty
\* third list: all three cases went through one merge.
C18_Witness ==
  /\ pc = "Done"
  /\ Cardinality({cf_candidates[i].score : i \in DOMAIN cf_candidates}) = 3
  /\ Len(cb_candidates) = 2
  /\ cb_candidates[1].score = cb_candidates[2].score
  /\ pop_candidates = <<>>
  /\ \E i \in DOMAIN pool : pool[i].cf_score \notin {0, Unit}
  /\ \E i \in DOMAIN pool : pool[i].cb_score = Unit /\ pool[i].cf_score = 0

\* C19: the hybrid score of every pool entry is the weighted sum of its three
\* normalized scores, minus its diversity penalty, plus its novelty bonus,
\* minus its price penalty, with the weights of the service.
C19_HybridFormula ==
  pc = "Done" =>
    \A i \in DOMAIN pool :
      pool[i].hybrid_score =
        w_cf * pool[i].cf_score + w_cb * pool[i].cb_score + w_pop * pool[i].pop_score
          - lambda_div * pool[i].diversity_penalty
          + beta_nov * pool[i].novelty_bonus
          - gamma_price * pool[i].price_penalty

\* An entry with a score from each of the three sources, and every penalty
\* and the bonus at work on some entry.
C19_Witness ==
  /\ pc = "Done"
  /\ \E i \in DOMAIN pool :
       pool[i].cf_score > 0 /\ pool[i].cb_score > 0 /\ pool[i].pop_score > 0
  /\ \E i, j \in DOMAIN pool : pool[i].diversity_penalty # pool[j].diversity_penalty
  /\ \E i \in DOMAIN pool : pool[i].novelty_bonus > 0
  /\ \E i \in DOMAIN pool : pool[i].price_penalty > 0

ProvenanceTag(sources) ==
  CASE sources = {"cf"} -> "cf"
    [] sources = {"content"} -> "content"
    [] sources = {"popularity"} -> "popularity"
    [] sources = {"cf", "content"} -> "cf+content"
    [] sources = {"cf", "popularity"} -> "cf+pop"
    [] sources = {"content", "popularity"} -> "content+pop"
    [] sources = {"cf", "content", "popularity"} -> "cf+content+pop"

\* C20: the pool holds each item of the three lists once and nothing else;
\* an entry has for each source the item's normalized score there, 0 when
\* the source did not return it, and a tag naming the sources that did.
C20_PoolIsTheUnion ==
  pc = "Done" =>
    /\ Ids(pool) = Ids(cf_candidates) \cup Ids(cb_candidates) \cup Ids(pop_candidates)
    /\ \A i, j \in DOMAIN pool : i # j => pool[i].product_id # pool[j].product_id
    /\ \A i \in DOMAIN pool :
         /\ \A source \in Sources :
              PoolScore(pool[i], source) = NormOf(source, pool[i].product_id)
         /\ pool[i].source =
              ProvenanceTag({source \in Sources :
                               pool[i].product_id \in Ids(SourceListOf(source))})

\* Item 2 came from all three sources, item 3 from CF alone, item 4 from
\* content and popularity.
C20_Witness ==
  /\ pc = "Done"
  /\ Ids(cf_candidates) = {2, 3}
  /\ Ids(cb_candidates) = {2, 4}
  /\ Ids(pop_candidates) = {2, 4}
  /\ Len(pool) = 3
  /\ \E i \in DOMAIN pool : pool[i].product_id = 2 /\ pool[i].source = "cf+content+pop"
  /\ \E i \in DOMAIN pool : pool[i].product_id = 3 /\ pool[i].source = "cf"
  /\ \E i \in DOMAIN pool : pool[i].product_id = 4 /\ pool[i].source = "content+pop"

(***************************************************************************)
(* Properties of the CF and content retrievers                             *)
(***************************************************************************)
Reverse(seq) == [i \in DOMAIN seq |-> seq[Len(seq) + 1 - i]]

\* The pairs (seed position, edge) of a history and a table that lead to
\* target t.
EdgesTo(history, table, t) ==
  {<<i, s>> \in (DOMAIN history) \X table :
     s.product_id = history[i].product_id /\ s.similar_product_id = t}

\* The targets the query of some seed delivers.
ReachedTargets(history, seeds, table) ==
  {t \in ActiveCatalog \ Ids(history) : EdgesTo(seeds, table, t) # {}}

ScoresOf(candidates) ==
  {<<candidates[i].product_id, candidates[i].score>> : i \in DOMAIN candidates}

\* C21: the CF list holds each reached target once, with the highest of
\* (edge score x recency weight of the seed) over the seeds that lead to
\* it; the seeds taken in the opposite order give the same scores.
C21_MaxOverSeeds ==
  (Returned("cf") /\ Len(hist_cf) >= cf_min_history) =>
    /\ \A i, j \in DOMAIN cf_candidates :
         i # j => cf_candidates[i].product_id # cf_candidates[j].product_id
    /\ Ids(cf_candidates) = ReachedTargets(hist_cf, hist_cf, sim_cf)
    /\ \A n \in DOMAIN cf_candidates :
         LET c == cf_candidates[n]
             edges == EdgesTo(hist_cf, sim_cf, c.product_id)
         IN /\ \E e \in edges : c.score = e[2].sim_score * recency_weight(hist_cf[e[1]])
            /\ \A e \in edges : c.score >= e[2].sim_score * recency_weight(hist_cf[e[1]])
    /\ {ScoresOf(c) : c \in CfScan(Reverse(hist_cf), 1, <<>>)}
         = {ScoresOf(c) : c \in CfScan(hist_cf, 1, <<>>)}

\* Item 3 is reached from both seeds; the second seed, a day older, brings
\* the higher score and replaces the first.
C21_Witness ==
  /\ pc = "Done"
  /\ "cf" \notin failed
  /\ Len(hist_cf) = 2
  /\ hist_cf[1].product_id = 4 /\ hist_cf[1].days_ago = 0
  /\ hist_cf[2].product_id = 1 /\ hist_cf[2].days_ago = 1
  /\ Cardinality(EdgesTo(hist_cf, sim_cf, 3)) = 2
  /\ Len(cf_candidates) = 1
  /\ cf_candidates[1].product_id = 3
  /\ cf_candidates[1].score = 8100

\* C22: the weight of a seed is decay to the power of its 0-based position
\* in the history, so the CF score of a target is the highest of (edge
\* score x decay^rank) over the seeds that lead to it.
C22_WeightIsDecayToRank ==
  (Returned("cf") /\ Len(hist_cf) >= cf_min_history) =>
    \A n \in DOMAIN cf_candidates :
      LET c == cf_candidates[n]
          edges == EdgesTo(hist_cf, sim_cf, c.product_id)
      IN /\ \E e \in edges : c.score = e[2].sim_score * Power9(e[1] - 1)
         /\ \A e \in edges : c.score >= e[2].sim_score * Power9(e[1] - 1)

\* C23: the content list holds each target reached from one of the three
\* most recent history items once, with the highest raw edge score over
\* those seeds, for every history that is not empty.
C23_ContentFromThreeSeeds ==
  Returned("content") =>
    LET seeds == Limit(hist_cb, content_history_items)
    IN /\ \A i, j \in DOMAIN cb_candidates :
            i # j => cb_candidates[i].product_id # cb_candidates[j].product_id
       /\ Ids(cb_candidates) = ReachedTargets(hist_cb, seeds, sim_content)
       /\ \A n \in DOMAIN cb_candidates :
            LET c == cb_candidates[n]
                edges == EdgesTo(seeds, sim_content, c.product_id)
            IN /\ \E e \in edges : c.score = e[2].sim_score
               /\ \A e \in edges : c.score >= e[2].sim_score

\* Four purchases; the second, a day old, gives item 3 its score 0.8
\* unweighted, above the 0.5 of the first; the 0.9 of the fourth is not
\* looked up.
C23_Witness ==
  /\ pc = "Popularity"
  /\ "content" \notin failed
  /\ Len(hist_cb) = 4
  /\ hist_cb[1].product_id = 1
  /\ hist_cb[2].product_id = 2 /\ hist_cb[2].days_ago = 1
  /\ hist_cb[4].product_id = 6
  /\ sim_content = {Edge(1, 3, 5, 0), Edge(2, 3, 8, 0), Edge(6, 3, 9, 0)}
  /\ Len(cb_candidates) = 1
  /\ cb_candidates[1].product_id = 3
  /\ cb_candidates[1].score = 8

(***************************************************************************)
(* Properties of the penalties and the bonus                               *)
(***************************************************************************)
\* The number of pool entries up to position i with the category of entry i.
SeenSoFar(i) ==
  Cardinality({j \in 1..i : pool[j].category = pool[i].category})

\* C24: walking the pool in insertion order, an entry never has a smaller
\* diversity penalty than an earlier entry of its category.
C24_DiversityNonDecreasing ==
  pc = "Done" =>
    \A i, j \in DOMAIN pool :
      (i < j /\ pool[i].category = pool[j].category)
      => pool[i].diversity_penalty <= pool[j].diversity_penalty

\* C25: the diversity penalty of every pool entry is min(c * 0.1, 0.5), c the
\* number of entries of its category seen so far in the walk over the pool.
C25_DiversityIsCappedCount ==
  pc = "Done" =>
    \A i \in DOMAIN pool :
      /\ pool[i].diversity_penalty = Min(SeenSoFar(i) * 100, 500)
      /\ pool[i].diversity_penalty >= 0
      /\ pool[i].diversity_penalty <= 500

PoolMaxPopularity ==
  CHOOSE m \in {pool[i].popularity_score : i \in DOMAIN pool} :
    \A i \in DOMAIN pool : m >= pool[i].popularity_score

\* C26: the novelty bonus of every pool entry is 1 - popularity / highest
\* popularity of the pool, and 0 for all when that highest popularity is 0.
C26_NoveltyBonus ==
  (pc = "Done" /\ pool # <<>>) =>
    \A i \in DOMAIN pool :
      /\ pool[i].novelty_bonus >= 0
      /\ pool[i].novelty_bonus <= Unit
      /\ pool[i].novelty_bonus =
           IF PoolMaxPopularity > 0
           THEN Unit - (pool[i].popularity_score * Unit) \div PoolMaxPopularity
           ELSE 0

\* C27: the price penalty of every pool entry is |price - avg| / avg cut to
\* [0, 1], avg the mean amount of the history; it is 0 for an empty history
\* and for an average of 0.
C27_PricePenalty ==
  pc = "Done" =>
    \A i \in DOMAIN pool :
      LET n == Len(user_history)
          total == SumAmount(user_history)
      IN /\ pool[i].price_penalty >= 0
         /\ pool[i].price_penalty <= Unit
         /\ (n = 0 \/ total = 0) => pool[i].price_penalty = 0
         /\ (n > 0 /\ total > 0) =>
              \/ /\ Abs(pool[i].price * n - total) >= total
                 /\ pool[i].price_penalty = Unit
              \/ /\ Abs(pool[i].price * n - total) < total
                 /\ pool[i].price_penalty =
                      (Abs(pool[i].price * n - total) * Unit) \div total

\* Purchases of 5 on average: item 3 at 20 is three averages away and gets
\* the penalty 1, item 2 at 10 is one average away.
C27_Witness ==
  /\ pc = "Done"
  /\ Len(user_history) = 2
  /\ SumAmount(user_history) = 10
  /\ \E i \in DOMAIN pool :
       pool[i].product_id = 3 /\ pool[i].price = 20 /\ pool[i].price_penalty = Unit
  /\ \E i \in DOMAIN pool : pool[i].product_id = 2 /\ pool[i].price_penalty = Unit

(***************************************************************************)
(* Properties of what an indexer run keeps and of a failed save            *)
(***************************************************************************)
\* The score the run of alg on its input gives the pair (i, j).
NeighbourScore(alg, input, i, j) ==
  IF alg = "cf" THEN cosine_similarity(CfInputs[input], i, j)
  ELSE ContentInputs[input][i][j]

\* The neighbours of item i that pass the thresholds of alg.
Eligible(alg, input, i) ==
  {j \in IndexItems \ {i} :
     /\ alg = "cf" =>
          LET buyers == CfInputs[input]
          IN /\ Cardinality(buyers[i]) >= min_item_purchases
             /\ Cardinality(buyers[j]) >= min_item_purchases
             /\ Cardinality(buyers[i] \cap buyers[j]) >= min_co_users
     /\ NeighbourScore(alg, input, i, j) * 10 >= min_sim_score}

\* C28: for each item a run keeps TopK of its eligible neighbours, or all of
\* them when there are fewer, each with its score, and no eligible
\* neighbour left out scores higher than one that was kept.
C28_TopKOfTheEligible ==
  indexer.algorithm \in Algorithms =>
    \A i \in IndexItems :
      LET alg == indexer.algorithm
          input == indexer.input
          kept == {e \in indexer.similarities : e.product_id = i}
          targets == {e.similar_product_id : e \in kept}
      IN /\ targets \subseteq Eligible(alg, input, i)
         /\ Cardinality(kept) = Cardinality(targets)
         /\ Cardinality(targets) = Min(TopK, Cardinality(Eligible(alg, input, i)))
         /\ \A e \in kept :
              e.sim_score = NeighbourScore(alg, input, i, e.similar_product_id)
         /\ \A e \in kept : \A j \in Eligible(alg, input, i) \ targets :
              NeighbourScore(alg, input, i, j) <= e.sim_score

\* Item 2 is the best neighbour of item 1 by cosine (0.8) and fails the
\* co-user threshold; item 3 (0.79) is kept all the same.  Item 3 has two
\* eligible neighbours.
C28_Witness ==
  /\ indexer.algorithm = "cf"
  /\ indexer.pc = "done"
  /\ indexer.input = 2
  /\ NeighbourScore("cf", 2, 1, 2) > NeighbourScore("cf", 2, 1, 3)
  /\ 2 \notin Eligible("cf", 2, 1)
  /\ \E e \in indexer.similarities : e.product_id = 1 /\ e.similar_product_id = 3
  /\ Eligible("cf", 2, 3) = {1, 2}
  /\ \E e \in indexer.similarities : e.product_id = 3

\* C29: after a run that failed, the table of its algorithm is the table
\* the run found, whether or not its DELETE had been executed.
C29_FailedSaveKeepsSnapshot ==
  (indexer.algorithm \in Algorithms /\ indexer.pc = "failed")
  => Table(indexer.algorithm) = indexer.prior

\* A content run found edges in the table, computed new ones, executed its
\* DELETE and failed before the commit.
C29_Witness ==
  /\ indexer.algorithm = "content"
  /\ indexer.pc = "failed"
  /\ indexer.deleted
  /\ indexer.prior # {}
  /\ indexer.similarities # {}
  /\ SimEdges(indexer.prior) # indexer.similarities
  /\ sim_content = indexer.prior

\* C30: the CF source, the content source, the popularity source and the
\* price penalty of one request use the same history, and no returned item
\* is in it.
C30_OneHistoryPerRequest ==
  /\ Returned("cf") => hist_cf = user_history
  /\ Returned("content") => hist_cb = user_history
  /\ Returned("popularity") => hist_pop = user_history
  /\ pc = "Done" =>
       Ids(recommendations)
         \cap (Ids(user_history) \cup Ids(hist_cf) \cup Ids(hist_cb) \cup Ids(hist_pop))
       = {}

====
